---- MODULE Spec2Model ----
(***************************************************************************)
(* Meme Workshop: the grid slicer (sliceMemeGrid), the cover-fit resizer   *)
(* (processImage) and the batch orchestration of App.handleGenerate.       *)
(*                                                                         *)
(* Numbers.  The code computes with IEEE doubles.  Every quantity here is  *)
(* the exact rational the double approximates, kept as a record            *)
(* [n |-> numerator, d |-> denominator] with d > 0.  An assignment to      *)
(* canvas.width / canvas.height converts to an unsigned long, i.e. it      *)
(* truncates; that conversion is modelled (Trunc).                         *)
(*                                                                         *)
(* Strings that the claims compare character by character (file names,    *)
(* ids) are sequences of one-character strings; CharCode gives the code    *)
(* unit JavaScript compares by.  User-visible messages are named by an     *)
(* ASCII tag (the source texts are Chinese).                               *)
(***************************************************************************)
EXTENDS Integers, Sequences, FiniteSets

VARIABLES
    prompt,         \* App: useState prompt
    refImage,       \* App: useState refImage          ("none" or a File)
    status,         \* App: useState status            (AppState)
    statusMessage,  \* App: useState statusMessage
    errorMsg,       \* App: useState errorMsg          ("null" or a message)
    originalImage,  \* App: useState originalImage     (Null or base64 image)
    slicedImages,   \* App: useState slicedImages      (sequence of SlicedImage)
    banner,         \* App: useState banner            (Null or MarketingAsset)
    logo,           \* App: useState logo
    metaData,       \* App: useState metaData
    pc,             \* where the running handleGenerate is suspended
    params,         \* handleGenerate: the prompt and reference image it uses
    batch,          \* number of batches started so far
    requests,       \* the generation calls of the running batch
    stale,          \* calls of earlier batches that are still in flight
    calls,          \* running batch: how often each call was made
    sliceImg,       \* sliceMemeGrid: the Image being decoded
    slicePromise,   \* sliceMemeGrid: the promise it returned
    fitImg,         \* processImage: the Image being decoded and the arguments
    fitPromise,     \* processImage: the promise it returned
    zipArgs,        \* downloadBatch: its arguments
    zip,            \* downloadBatch: the entries of the JSZip object
    zipPc,          \* downloadBatch: where the call is suspended
    saved,          \* the files handed to saveAs, in order
    genCall,        \* one generation call: its kind and its params
    svcResponse,    \* what generateContent answered
    genResult       \* the promise the generation call returned

appVars == <<prompt, refImage, status, statusMessage, errorMsg, originalImage,
             slicedImages, banner, logo, metaData, pc, params, batch, requests,
             stale, calls>>
sliceVars == <<sliceImg, slicePromise>>
fitVars == <<fitImg, fitPromise>>
zipVars == <<zipArgs, zip, zipPc, saved>>
genVars == <<genCall, svcResponse, genResult>>
vars == <<prompt, refImage, status, statusMessage, errorMsg, originalImage,
          slicedImages, banner, logo, metaData, pc, params, batch, requests,
          stale, calls, sliceImg, slicePromise, fitImg, fitPromise,
          zipArgs, zip, zipPc, saved, genCall, svcResponse, genResult>>

----------------------------------------------------------------------------
(* Program constants and bounds *)

COLS == 6
ROWS == 4

\* Composite sizes the slicer is applied to: every W x H up to the bounds ...
MaxWidth == 13
MaxHeight == 9
\* ... the size of the spec's scenario (3840x2160, cells 640x540) ...
ScenarioSizes == {<<3840, 2160>>}
\* ... and grids whose cells (80x80) are large enough for the corner mask to
\* clear whole pixels, one an exact multiple of the grid and one not.
LargeCellSizes == {<<480, 320>>, <<485, 323>>}

----------------------------------------------------------------------------
(* Arithmetic *)

Min(a, b) == IF a <= b THEN a ELSE b
Max(a, b) == IF a >= b THEN a ELSE b

\* Euclid's algorithm, for a, b >= 0.
RECURSIVE GCD(_, _)
GCD(a, b) == IF b = 0 THEN a ELSE GCD(b, a % b)
Abs(a) == IF a < 0 THEN -a ELSE a

\* The rational n / d (d > 0) in lowest terms.
Rat(n, d) ==
    LET g == GCD(Abs(n), d)
    IN  [n |-> n \div g, d |-> d \div g]
RInt(k) == [n |-> k, d |-> 1]
REq(a, b) == a.n * b.d = b.n * a.d
RLeq(a, b) == a.n * b.d <= b.n * a.d
RLt(a, b) == a.n * b.d < b.n * a.d
RMin(a, b) == IF RLeq(a, b) THEN a ELSE b
RMax(a, b) == IF RLeq(b, a) THEN a ELSE b
RAdd(a, b) == Rat(a.n * b.d + b.n * a.d, a.d * b.d)
RSub(a, b) == Rat(a.n * b.d - b.n * a.d, a.d * b.d)
RMul(a, b) == Rat(a.n * b.n, a.d * b.d)
\* a / b for b > 0
RDiv(a, b) == Rat(a.n * b.d, a.d * b.n)
RIsInt(a) == a.n % a.d = 0

\* (variant: the size rounded up instead of truncated)
TruncUp(a) == (a.n + a.d - 1) \div a.d
\* ToUint32 of a non-negative number below 2^32: the fraction is dropped.
Trunc(a) == a.n \div a.d

----------------------------------------------------------------------------
(* Strings as sequences of characters *)

Digits == <<"0", "1", "2", "3", "4", "5", "6", "7", "8", "9">>

\* Number.prototype.toString() of a non-negative integer.
RECURSIVE toString(_)
toString(n) ==
    IF n < 10 THEN <<Digits[n + 1]>>
    ELSE toString(n \div 10) \o <<Digits[(n % 10) + 1]>>

\* (variant: the index is not padded)
padStartOmitted(s, targetLength, padChar) == s
\* String.prototype.padStart(targetLength, padString) for a one-character pad.
RECURSIVE padStart(_, _, _)
padStart(s, targetLength, padChar) ==
    IF Len(s) >= targetLength THEN s
    ELSE padStart(<<padChar>> \o s, targetLength, padChar)

\* The UTF-16 code unit of the characters that occur in ids and file names.
CharCode(c) ==
    CASE c = "-" -> 45 [] c = "." -> 46
      [] c = "0" -> 48 [] c = "1" -> 49 [] c = "2" -> 50 [] c = "3" -> 51
      [] c = "4" -> 52 [] c = "5" -> 53 [] c = "6" -> 54 [] c = "7" -> 55
      [] c = "8" -> 56 [] c = "9" -> 57
      [] c = "_" -> 95 [] c = "e" -> 101 [] c = "g" -> 103 [] c = "m" -> 109
      [] c = "n" -> 110 [] c = "p" -> 112

\* s < t in JavaScript's string order (code unit by code unit, a proper
\* prefix first).
RECURSIVE StrLess(_, _)
StrLess(s, t) ==
    IF t = <<>> THEN FALSE
    ELSE IF s = <<>> THEN TRUE
    ELSE IF CharCode(Head(s)) # CharCode(Head(t))
         THEN CharCode(Head(s)) < CharCode(Head(t))
    ELSE StrLess(Tail(s), Tail(t))

----------------------------------------------------------------------------
(* null, and promises *)

\* null / undefined of a state slot that otherwise holds an object.
Null == [null |-> TRUE]
\* No Image object has been created.
NoImg == [src |-> Null, event |-> "unset", ctx |-> "unset"]

\* A promise: pending, or settled with a value or a reason; settleCalls
\* counts the calls of its resolve / reject functions.
PendingPromise == [state |-> "pending", value |-> <<>>, reason |-> "none",
                   settleCalls |-> 0]
NoPromise == [state |-> "none", value |-> <<>>, reason |-> "none",
              settleCalls |-> 0]

\* resolve(v) / reject(e) of the Promise executor: the first call settles the
\* promise, later calls are counted and otherwise ignored.
resolve(p, v) ==
    IF p.state = "pending"
    THEN [p EXCEPT !.state = "fulfilled", !.value = v,
                   !.settleCalls = @ + 1]
    ELSE [p EXCEPT !.settleCalls = @ + 1]
reject(p, e) ==
    IF p.state = "pending"
    THEN [p EXCEPT !.state = "rejected", !.reason = e,
                   !.settleCalls = @ + 1]
    ELSE [p EXCEPT !.settleCalls = @ + 1]

----------------------------------------------------------------------------
(* sliceMemeGrid *)

\* An encoded image as handed to the transforms: whether it decodes, and its
\* decoded size; tag says which generation call produced it.
Image(tag, decodes, width, height) ==
    [tag |-> tag, decodes |-> decodes, width |-> width, height |-> height]

\* The encoded images of the given decoded sizes, and one that does not
\* decode.
EncodedImages(tag, sizes) ==
    {Image(tag, TRUE, s[1], s[2]) : s \in sizes}
        \cup {Image(tag, FALSE, 0, 0)}

cellWidth(img) == Rat(img.width, COLS)
cellHeight(img) == Rat(img.height, ROWS)
\* Math.min(cellWidth, cellHeight) * 0.05
borderRadius(img) ==
    RMul(RMin(cellWidth(img), cellHeight(img)), Rat(1, 20))

\* (variant: the column offset taken from the row counter)
sourceXFromRow(img, row, col) == RMul(RInt(row), cellWidth(img))
sourceX(img, row, col) == RMul(RInt(col), cellWidth(img))
sourceY(img, row, col) == RMul(RInt(row), cellHeight(img))

\* What the canvas holds when toDataURL is called for cell (row, col): its
\* size, the rounded-rectangle clip path and the one drawImage call.
CellPicture(img, row, col) ==
    [ src    |-> img.tag,
      width  |-> Trunc(cellWidth(img)),
      height |-> Trunc(cellHeight(img)),
      clipW  |-> cellWidth(img),
      clipH  |-> cellHeight(img),
      radius |-> borderRadius(img),
      sx |-> sourceX(img, row, col), sy |-> sourceY(img, row, col),
      sw |-> cellWidth(img),         sh |-> cellHeight(img),
      dx |-> RInt(0),                dy |-> RInt(0),
      dw |-> cellWidth(img),         dh |-> cellHeight(img) ]

\* (variant: the cells numbered column by column)
CellIndexColumnMajor(row, col) == col * ROWS + row + 1
CellIndex(row, col) == row * COLS + col + 1

SliceId(index) == <<"m", "e", "m", "e", "-">> \o toString(index)
SliceFileName(index) ==
    <<"m", "e", "m", "e", "_">> \o padStart(toString(index), 2, "0")
        \o <<".", "p", "n", "g">>

\* The object pushed for cell (row, col).  The blob holds the bytes the data
\* URL encodes (atob of its base64 part), typed image/png.
SlicedImage(img, row, col) ==
    LET index == CellIndex(row, col)
        picture == CellPicture(img, row, col)
    IN  [ id       |-> SliceId(index),
          blob     |-> [type |-> "image/png", picture |-> picture],
          dataUrl  |-> [mime |-> "image/png", picture |-> picture],
          fileName |-> SliceFileName(index) ]

\* for (row ...) for (col ...) { ... slices.push(...) }
RECURSIVE SliceLoop(_, _, _, _)
SliceLoop(img, row, col, slices) ==
    IF row >= ROWS THEN slices
    ELSE IF col >= COLS THEN SliceLoop(img, row + 1, 0, slices)
    ELSE SliceLoop(img, row, col + 1,
                   Append(slices, SlicedImage(img, row, col)))

\* sliceMemeGrid(imageBase64): creates the Image and returns the promise.
sliceMemeGrid(img) ==
    /\ sliceImg' = [src |-> img, event |-> "none", ctx |-> "unset"]
    /\ slicePromise' = PendingPromise

\* (variant: the early return after reject is missing)
SliceOnloadBodyNoReturn(p, img, ctxOk) ==
    resolve(IF ~ctxOk THEN reject(p, "Could not get canvas context") ELSE p,
            SliceLoop(img, 0, 0, <<>>))
\* The body of img.onload.
SliceOnloadBody(p, img, ctxOk) ==
    IF ~ctxOk THEN reject(p, "Could not get canvas context")
    ELSE resolve(p, SliceLoop(img, 0, 0, <<>>))

\* The body of img.onerror.
SliceOnerrorBody(p) == reject(p, "ERR_SLICE_LOAD")

----------------------------------------------------------------------------
(* processImage *)

\* String.prototype.endsWith / includes on character sequences.
endsWith(s, suffix) ==
    /\ Len(suffix) <= Len(s)
    /\ SubSeq(s, Len(s) - Len(suffix) + 1, Len(s)) = suffix
includes(s, part) ==
    \E k \in 1 .. (Len(s) - Len(part) + 1) :
        SubSeq(s, k, k + Len(part) - 1) = part

\* (variant: "contain" instead of "cover": the smaller of the two ratios)
scaleContain(img, targetWidth, targetHeight) ==
    RMin(RDiv(RInt(targetWidth), RInt(img.width)),
         RDiv(RInt(targetHeight), RInt(img.height)))
\* (variant: one ratio for both axes, from the longer target side and the
\* shorter source side; it covers, but over-scales)
scaleLongOverShort(img, targetWidth, targetHeight) ==
    RDiv(RInt(Max(targetWidth, targetHeight)),
         RInt(Min(img.width, img.height)))
\* Math.max(targetWidth / img.width, targetHeight / img.height)
scale(img, targetWidth, targetHeight) ==
    RMax(RDiv(RInt(targetWidth), RInt(img.width)),
         RDiv(RInt(targetHeight), RInt(img.height)))

\* (variant: the source's half width is not scaled)
offsetXUnscaled(img, targetWidth, targetHeight) ==
    RSub(Rat(targetWidth, 2), Rat(img.width, 2))
\* (variant: the picture is aligned with the top edge)
offsetYTop(img, targetWidth, targetHeight) == RInt(0)
\* const x = (targetWidth / 2) - (img.width / 2) * scale, and y likewise
offsetX(img, targetWidth, targetHeight) ==
    RSub(Rat(targetWidth, 2),
         RMul(Rat(img.width, 2), scale(img, targetWidth, targetHeight)))
offsetY(img, targetWidth, targetHeight) ==
    RSub(Rat(targetHeight, 2),
         RMul(Rat(img.height, 2), scale(img, targetWidth, targetHeight)))

\* What the canvas holds when toDataURL is called: its size and the one
\* drawImage(img, x, y, img.width * scale, img.height * scale) call, which
\* draws the whole image.
FitPicture(img, targetWidth, targetHeight) ==
    [ src    |-> img.tag,
      width  |-> Trunc(RInt(targetWidth)),
      height |-> Trunc(RInt(targetHeight)),
      sx |-> RInt(0),          sy |-> RInt(0),
      sw |-> RInt(img.width),  sh |-> RInt(img.height),
      dx |-> offsetX(img, targetWidth, targetHeight),
      dy |-> offsetY(img, targetWidth, targetHeight),
      dw |-> RMul(RInt(img.width), scale(img, targetWidth, targetHeight)),
      dh |-> RMul(RInt(img.height), scale(img, targetWidth, targetHeight)) ]

DotPng == <<".", "p", "n", "g">>
BannerWord == <<"b", "a", "n", "n", "e", "r">>
BannerFileName == BannerWord \o DotPng
LogoFileName == <<"l", "o", "g", "o">> \o DotPng

\* The object processImage resolves with.
MarketingAsset(img, targetWidth, targetHeight, fileName) ==
    LET mimeType == IF endsWith(fileName, DotPng)
                    THEN "image/png" ELSE "image/jpeg"
        picture == FitPicture(img, targetWidth, targetHeight)
    IN  [ type     |-> IF includes(fileName, BannerWord)
                       THEN "banner" ELSE "logo",
          blob     |-> [type |-> mimeType, picture |-> picture],
          dataUrl  |-> [mime |-> mimeType, picture |-> picture],
          fileName |-> fileName ]

\* processImage(imageBase64, targetWidth, targetHeight, fileName): creates
\* the Image and returns the promise.
processImage(img, targetWidth, targetHeight, fileName) ==
    /\ fitImg' = [src |-> img, event |-> "none", ctx |-> "unset",
                  targetWidth |-> targetWidth, targetHeight |-> targetHeight,
                  fileName |-> fileName]
    /\ fitPromise' = PendingPromise

\* The body of img.onload.
FitOnloadBody(p, f, ctxOk) ==
    IF ~ctxOk THEN reject(p, "Could not get canvas context")
    ELSE resolve(p, MarketingAsset(f.src, f.targetWidth, f.targetHeight,
                                   f.fileName))

\* The body of img.onerror.
FitOnerrorBody(p) == reject(p, "Image processing failed")

----------------------------------------------------------------------------
(* downloadBatch *)

Stickers ==
    <<"s", "t", "i", "c", "k", "e", "r", "s">>
InfoTxt ==
    <<"i", "n", "f", "o", ".", "t", "x", "t">>
MemePackZip ==
    <<"m", "e", "m", "e", "_", "p", "a", "c", "k", ".", "z", "i", "p">>
TitleLabel ==
    <<"T", "i", "t", "l", "e", ":", " ">>
DescriptionLabel ==
    <<"D", "e", "s", "c", "r", "i", "p", "t", "i", "o", "n", ":">>
Attribution ==
    <<"G", "e", "n", "e", "r", "a", "t", "e", "d", " ", "b", "y", " ", "A",
      "I", " ", "C", "r", "e", "a", "t", "i", "v", "e", " ", "M", "e", "m",
      "e", " ", "S", "t", "u", "d", "i", "o">>
LF == "\n"

\* JSZip's file(name, data): the entry is added, or replaces the entry that
\* has the same name.
file(z, name, data) ==
    LET entry == [name |-> name, dir |-> FALSE, data |-> data]
    IN  IF \E i \in 1 .. Len(z) : z[i].name = name
        THEN [i \in 1 .. Len(z) |->
                 IF z[i].name = name THEN entry ELSE z[i]]
        ELSE Append(z, entry)

\* JSZip's folder(name): the directory entry name/ is created.
folder(z, name) ==
    IF \E i \in 1 .. Len(z) : z[i].name = name \o <<"/">>
    THEN z
    ELSE Append(z, [name |-> name \o <<"/">>, dir |-> TRUE,
                    data |-> [none |-> TRUE]])

\* (variant: the slices are written to the archive root)
stickersFolderFileAtRoot(z, name, data) == file(z, name, data)
\* stickersFolder.file(name, data): an entry under stickers/.
stickersFolderFile(z, name, data) ==
    file(z, Stickers \o <<"/">> \o name, data)

\* slices.forEach(slice => stickersFolder.file(slice.fileName, slice.blob))
RECURSIVE AddSlices(_, _)
AddSlices(z, slices) ==
    IF slices = <<>> THEN z
    ELSE AddSlices(stickersFolderFile(z, Head(slices).fileName,
                                      [blob |-> Head(slices).blob]),
                   Tail(slices))

\* extraAssets.forEach(asset => zip.file(asset.fileName, asset.blob))
RECURSIVE AddAssets(_, _)
AddAssets(z, extraAssets) ==
    IF extraAssets = <<>> THEN z
    ELSE AddAssets(file(z, Head(extraAssets).fileName,
                        [blob |-> Head(extraAssets).blob]),
                   Tail(extraAssets))

\* `Title: ${title}\n\nDescription:\n${description}\n\nGenerated by ...`
infoContent(meta) ==
    TitleLabel \o meta.title \o <<LF, LF>> \o DescriptionLabel \o <<LF>>
        \o meta.description \o <<LF, LF>> \o Attribution

\* The JSZip object downloadBatch has built when it awaits generateAsync.
BuildZip(args) ==
    LET withSlices == AddSlices(folder(<<>>, Stickers), args.slices)
        withAssets == AddAssets(withSlices, args.extraAssets)
    IN  IF args.metaData # Null
        THEN file(withAssets, InfoTxt,
                  [text |-> infoContent(args.metaData)])
        ELSE withAssets

\* handleDownloadAll: the arguments it passes to downloadBatch.
handleDownloadAllArgs ==
    [ slices      |-> slicedImages,
      extraAssets |-> (IF banner # Null THEN <<banner>> ELSE <<>>)
                          \o (IF logo # Null THEN <<logo>> ELSE <<>>),
      metaData    |-> metaData ]

\* No download has been asked for.
ZipIdle ==
    /\ zipArgs = Null
    /\ zip = <<>>
    /\ zipPc = "idle"
    /\ saved = <<>>

\* downloadBatch up to its await: the archive is filled.
downloadBatch ==
    /\ zipPc = "called"
    /\ zip' = BuildZip(zipArgs)
    /\ zipPc' = "generateAsync"
    /\ UNCHANGED <<zipArgs, saved, appVars, sliceVars, fitVars, genVars>>

\* zip.generateAsync resolves: saveAs(content, "meme_pack.zip").
GenerateAsyncResolved ==
    /\ zipPc = "generateAsync"
    /\ saved' = Append(saved, [name |-> MemePackZip, content |-> zip])
    /\ zipPc' = "done"
    /\ UNCHANGED <<zipArgs, zip, appVars, sliceVars, fitVars, genVars>>

----------------------------------------------------------------------------
(* Pixels of a canvas picture *)

\* Lengths in the corner tests are integers in units of 1/Units pixel.
Units == COLS * ROWS * 20
InUnits(q) == (q.n * Units) \div q.d

\* sqrt(a) + sqrt(b) < sqrt(m), resp. <=, for a, b, m >= 0: the point at
\* distances a and b from a corner of the clip rectangle, measured along its
\* two edges, lies beyond the quadratic curve that rounds that corner.
BeyondCurve(a, b, m) ==
    /\ a + b < m
    /\ 4 * a * b < (m - a - b) * (m - a - b)
BeyondCurveOrOn(a, b, m) ==
    /\ a + b <= m
    /\ 4 * a * b <= (m - a - b) * (m - a - b)

\* Canvas pixel (i, j) is the unit square [i, i+1] x [j, j+1].  It is
\* "outside" the clip path when the whole square lies beyond one of the four
\* corner curves (the pixel stays transparent), "edge" when only part of it
\* does, "inside" otherwise.
ClipCoverage(pic, i, j) ==
    LET m  == InUnits(pic.radius)
        w  == InUnits(pic.clipW)
        h  == InUnits(pic.clipH)
        x0 == i * Units
        x1 == (i + 1) * Units
        y0 == j * Units
        y1 == (j + 1) * Units
    IN  IF \/ BeyondCurveOrOn(x1, y1, m)
           \/ BeyondCurveOrOn(w - x0, y1, m)
           \/ BeyondCurveOrOn(x1, h - y0, m)
           \/ BeyondCurveOrOn(w - x0, h - y0, m)
        THEN "outside"
        ELSE IF \/ BeyondCurve(x0, y0, m)
                \/ BeyondCurve(w - x1, y0, m)
                \/ BeyondCurve(x0, h - y1, m)
                \/ BeyondCurve(w - x1, h - y1, m)
        THEN "edge"
        ELSE "inside"

\* drawImage(img, sx, sy, sw, sh, dx, dy, dw, dh) maps canvas pixel (i, j) to
\* the source square with this top-left corner and this side.
SourceLeft(pic, i) ==
    RAdd(pic.sx, RMul(RSub(RInt(i), pic.dx), RDiv(pic.sw, pic.dw)))
SourceTop(pic, j) ==
    RAdd(pic.sy, RMul(RSub(RInt(j), pic.dy), RDiv(pic.sh, pic.dh)))

\* Canvas pixel (i, j) shows exactly the source pixel (x, y): the source
\* square is that pixel (unscaled, aligned).
ShowsSourcePixel(pic, i, j, x, y) ==
    /\ REq(pic.sw, pic.dw)
    /\ REq(pic.sh, pic.dh)
    /\ REq(SourceLeft(pic, i), RInt(x))
    /\ REq(SourceTop(pic, j), RInt(y))

----------------------------------------------------------------------------
(* geminiService: the generation calls *)

\* The part of a service response that extractImage reads.  A response may
\* lack its candidates, a candidate its content, a content its parts, a part
\* its inlineData; the data of an inlineData may be the empty string.
Response(hasCandidates, candidates) ==
    [hasCandidates |-> hasCandidates, candidates |-> candidates]
Candidate(hasContent, hasParts, parts) ==
    [hasContent |-> hasContent, hasParts |-> hasParts, parts |-> parts]
TextPart == [hasInlineData |-> FALSE, data |-> ""]
ImagePart(data) == [hasInlineData |-> TRUE, data |-> data]

Return(value) == [state |-> "fulfilled", value |-> value, reason |-> ""]
Throw(message) == [state |-> "rejected", value |-> "", reason |-> message]

\* The TypeErrors of reading .parts of an undefined content and of iterating
\* undefined parts (the wording is the engine's).
TypeErrorReadingParts == "TypeError: content is undefined (reading 'parts')"
TypeErrorNotIterable == "TypeError: parts is not iterable"
NoImageData == "No image data found in response."

\* for (const part of parts) { if (part.inlineData && part.inlineData.data)
\* { base64Image = part.inlineData.data; break; } }
RECURSIVE FirstInlineData(_)
FirstInlineData(parts) ==
    IF parts = <<>> THEN ""
    ELSE IF Head(parts).hasInlineData /\ Head(parts).data # ""
    THEN Head(parts).data
    ELSE FirstInlineData(Tail(parts))

\* (variant: the loop has no break, so the last image part wins)
RECURSIVE LastInlineData(_)
LastInlineData(parts) ==
    IF parts = <<>> THEN ""
    ELSE IF parts[Len(parts)].hasInlineData /\ parts[Len(parts)].data # ""
    THEN parts[Len(parts)].data
    ELSE LastInlineData(SubSeq(parts, 1, Len(parts) - 1))

\* (variant of extractImage with that loop)
extractImageLast(response) ==
    IF response.hasCandidates /\ Len(response.candidates) > 0
    THEN LET first == response.candidates[1]
         IN  IF ~first.hasContent THEN Throw(TypeErrorReadingParts)
             ELSE IF ~first.hasParts THEN Throw(TypeErrorNotIterable)
             ELSE IF LastInlineData(first.parts) = ""
             THEN Throw(NoImageData)
             ELSE Return(LastInlineData(first.parts))
    ELSE Throw(NoImageData)

\* extractImage(response): the value it returns or the error it throws.
extractImage(response) ==
    IF response.hasCandidates /\ Len(response.candidates) > 0
    THEN LET first == response.candidates[1]
         IN  IF ~first.hasContent THEN Throw(TypeErrorReadingParts)
             ELSE IF ~first.hasParts THEN Throw(TypeErrorNotIterable)
             ELSE IF FirstInlineData(first.parts) = ""
             THEN Throw(NoImageData)
             ELSE Return(FirstInlineData(first.parts))
    ELSE Throw(NoImageData)

\* The error of a generateContent call that the service or the network
\* fails.
\* generateMemeMetadata. A text is the sequence of its JSON tokens; a token
\* that JSON does not have (a Markdown fence around the answer) is Junk.
Token(t, v) == [t |-> t, v |-> v]
LBrace == Token("punct", <<"{">>)
RBrace == Token("punct", <<"}">>)
Colon == Token("punct", <<":">>)
Comma == Token("punct", <<",">>)
NullTok == Token("null", <<>>)
Junk == Token("junk", <<"#">>)
Str(chars) == Token("string", chars)

TitleKey == <<"t", "i", "t", "l", "e">>
DescriptionKey ==
    <<"d", "e", "s", "c", "r", "i", "p", "t", "i", "o", "n">>

\* The values JSON.parse returns here: null, a string, or an object, held as
\* its members in insertion order.
JSONNull == [json |-> "null"]
JSONString(chars) == [json |-> "string", chars |-> chars]
JSONObject(members) == [json |-> "object", members |-> members]
Parsed(value) == [ok |-> TRUE, value |-> value]
SyntaxError == [ok |-> FALSE, value |-> JSONNull]

\* obj[key] = value: a key already there keeps its place.
SetMember(members, key, value) ==
    IF \E i \in 1 .. Len(members) : members[i].key = key
    THEN [i \in 1 .. Len(members) |->
             IF members[i].key = key
             THEN [key |-> key, value |-> value]
             ELSE members[i]]
    ELSE Append(members, [key |-> key, value |-> value])

HasMember(obj, key) ==
    \E i \in 1 .. Len(obj.members) : obj.members[i].key = key
Member(obj, key) ==
    obj.members[CHOOSE i \in 1 .. Len(obj.members) :
                    obj.members[i].key = key].value

\* The members of an object from token i on: "key" : "value", then a comma
\* and more members, or the closing brace, which ends the text.
RECURSIVE ParseMembers(_, _, _)
ParseMembers(toks, i, members) ==
    IF i + 3 > Len(toks) THEN SyntaxError
    ELSE IF toks[i].t # "string" \/ toks[i + 1] # Colon
               \/ toks[i + 2].t # "string"
    THEN SyntaxError
    ELSE LET m == SetMember(members, toks[i].v, toks[i + 2].v)
         IN  IF toks[i + 3] = RBrace
             THEN IF i + 3 = Len(toks)
                  THEN Parsed(JSONObject(m))
                  ELSE SyntaxError
             ELSE IF toks[i + 3] = Comma
             THEN ParseMembers(toks, i + 4, m)
             ELSE SyntaxError

\* JSON.parse(text), for the texts made of null, strings and objects with
\* string members.
JSONparse(toks) ==
    IF toks = <<>> THEN SyntaxError
    ELSE IF toks[1] = NullTok
    THEN IF Len(toks) = 1 THEN Parsed(JSONNull) ELSE SyntaxError
    ELSE IF toks[1].t = "string"
    THEN IF Len(toks) = 1
         THEN Parsed(JSONString(toks[1].v))
         ELSE SyntaxError
    ELSE IF toks[1] = LBrace
    THEN IF Len(toks) >= 2 /\ toks[2] = RBrace
         THEN IF Len(toks) = 2
              THEN Parsed(JSONObject(<<>>))
              ELSE SyntaxError
         ELSE ParseMembers(toks, 2, <<>>)
    ELSE SyntaxError

\* String.prototype.substring(start, end): both indices are clamped to
\* 0 .. length and swapped when start is the larger.
substring(str, start, end) ==
    LET s == Max(0, Min(start, Len(str)))
        e == Max(0, Min(end, Len(str)))
    IN  SubSeq(str, Min(s, e) + 1, Max(s, e))

\* The five characters of the fallback title, by code point.
FallbackTitle == <<"U+521B", "U+610F", "U+8868", "U+60C5", "U+5305">>
MaxDescription == 100

\* response.text is undefined, or a text.
TextResponse(hasText, text) == [hasText |-> hasText, text |-> text]

\* (variant: the parse error is thrown again)
generateMemeMetadataRethrow(parameters, response) ==
    LET text == IF response.hasText /\ response.text # <<>>
                THEN response.text
                ELSE <<LBrace, RBrace>>
        parsed == JSONparse(text)
    IN  IF parsed.ok
        THEN Return(parsed.value)
        ELSE Throw("SyntaxError")
\* Lines 210-219: the try block after the awaited generateContent.
generateMemeMetadataBody(parameters, response) ==
    LET text == IF response.hasText /\ response.text # <<>>
                THEN response.text
                ELSE <<LBrace, RBrace>>
        parsed == JSONparse(text)
    IN  IF parsed.ok
        THEN Return(parsed.value)
        ELSE Return(JSONObject(
                 <<[key |-> TitleKey, value |-> FallbackTitle],
                   [key |-> DescriptionKey,
                    value |-> substring(parameters.userPrompt, 0,
                                        MaxDescription)]>>))

\* A well-formed answer, and the responses a metadata request is tried on:
\* without text, with an empty text, the answer, the answer with its title
\* given twice, an empty object, a lone string, null, the answer inside a
\* Markdown fence, and a text cut short.
MetadataAnswer ==
    <<LBrace, Str(TitleKey), Colon, Str(<<"T">>), Comma,
      Str(DescriptionKey), Colon, Str(<<"d">>), RBrace>>
MetadataResponses ==
    {TextResponse(FALSE, <<>>), TextResponse(TRUE, <<>>),
     TextResponse(TRUE, MetadataAnswer),
     TextResponse(TRUE, <<LBrace, Str(TitleKey), Colon, Str(<<"X">>),
                          Comma>> \o SubSeq(MetadataAnswer, 2, 9)),
     TextResponse(TRUE, <<LBrace, RBrace>>),
     TextResponse(TRUE, <<Str(<<"T">>)>>),
     TextResponse(TRUE, <<NullTok>>),
     TextResponse(TRUE, <<Junk>> \o MetadataAnswer \o <<Junk>>),
     TextResponse(TRUE, SubSeq(MetadataAnswer, 1, 3)),
     TextResponse(TRUE, SubSeq(MetadataAnswer, 1, 8)),
     TextResponse(TRUE, MetadataAnswer \o <<RBrace>>),
     TextResponse(TRUE, <<LBrace, Comma, RBrace>>)}

ServiceError == "ERR_SERVICE"

\* The responses an image request is tried on: the part lists up to
\* MaxParts long in a single candidate, the responses without candidates or
\* with a candidate that lacks its content or its parts, and the responses
\* whose second candidate alone carries an image.
MaxParts == 3
PartKinds == {TextPart, ImagePart(""), ImagePart("A"), ImagePart("B")}
PartLists ==
    UNION {[1 .. n -> PartKinds] : n \in 0 .. MaxParts}
ImageResponses ==
    {Response(FALSE, <<>>), Response(TRUE, <<>>),
     Response(TRUE, <<Candidate(FALSE, FALSE, <<>>)>>),
     Response(TRUE, <<Candidate(TRUE, FALSE, <<>>)>>)}
        \cup {Response(TRUE, <<Candidate(TRUE, TRUE, parts)>>) :
                  parts \in PartLists}
        \cup {Response(TRUE, <<first, Candidate(TRUE, TRUE,
                                                <<ImagePart("B")>>)>>) :
                  first \in {Candidate(FALSE, FALSE, <<>>),
                             Candidate(TRUE, TRUE, <<>>),
                             Candidate(TRUE, TRUE, <<TextPart>>),
                             Candidate(TRUE, TRUE, <<ImagePart("A")>>)}}

ImageKinds == {"meme", "banner", "logo"}

\* return extractImage(response), in an async function.
generateImageBody(response) == extractImage(response)

\* The failing responses an image request of a batch is answered with: one
\* without candidates and one whose first candidate has no content. What a
\* request of the given kind can reject with.
AppImageResponses ==
    {Response(TRUE, <<>>), Response(TRUE, <<Candidate(FALSE, FALSE, <<>>)>>)}
ImageErrors ==
    {generateImageBody(r).reason : r \in AppImageResponses}
RequestErrors(kind) ==
    {ServiceError} \cup (IF kind \in ImageKinds THEN ImageErrors ELSE {})

\* No generation call is looked at on its own.
GenIdle ==
    /\ genCall = Null
    /\ svcResponse = Null
    /\ genResult = NoPromise

----------------------------------------------------------------------------
(* App: the component state and handleGenerate *)

\* The generation calls made inside Promise.all, and the transforms that
\* follow them.
Kinds == {"meme", "banner", "logo", "metadata"}
Transforms == {"sliceMemeGrid", "processBanner", "processLogo"}

\* Batches a run may start.
MaxBatches == 2

\* Texts the user may type: nothing, only white space, a description.
Prompts == {<<>>, <<" ">>, <<"c", "a", "t">>}

\* Sizes of the images the generator returns to App (16:9 and 1:1).
AppCompositeSizes == {<<12, 8>>}
AppBannerSizes == {<<1376, 768>>}
AppLogoSizes == {<<1024, 1024>>}

\* The arguments of the two processImage calls.
BannerWidth == 750
BannerHeight == 400
LogoSize == 512

\* (variant: nothing is trimmed)
trimNothing(s) == s
\* String.prototype.trim, for the white space a prompt here can hold.
RECURSIVE trimStart(_)
trimStart(s) ==
    IF s # <<>> /\ Head(s) = " " THEN trimStart(Tail(s)) ELSE s
RECURSIVE trimEnd(_)
trimEnd(s) ==
    IF s # <<>> /\ s[Len(s)] = " "
    THEN trimEnd(SubSeq(s, 1, Len(s) - 1)) ELSE s
trim(s) == trimEnd(trimStart(s))

NoRequests == [k \in Kinds |-> "none"]
NoCalls == [c \in Kinds \cup Transforms |-> 0]

AppInit ==
    /\ prompt = <<>>
    /\ refImage = "none"
    /\ status = "IDLE"
    /\ statusMessage = ""
    /\ errorMsg = "null"
    /\ originalImage = Null
    /\ slicedImages = <<>>
    /\ banner = Null
    /\ logo = Null
    /\ metaData = Null
    /\ pc = "idle"
    /\ params = Null
    /\ batch = 0
    /\ requests = NoRequests
    /\ stale = 0
    /\ calls = NoCalls

\* What a generation call of the running batch returns: the image tagged
\* with the batch and the call that produced it.
Tag(kind) == [batch |-> batch, kind |-> kind]

\* (variant: Promise.allSettled, which never rejects)
PromiseAllSettled(reqs) ==
    IF \A k \in Kinds : reqs[k] \in {"fulfilled", "rejected"}
    THEN "fulfilled" ELSE "pending"
\* (variant: the rejection is delivered only once every request has settled)
PromiseAllWaiting(reqs) ==
    IF \E k \in Kinds : reqs[k] \in {"none", "pending"} THEN "pending"
    ELSE IF \E k \in Kinds : reqs[k] = "rejected" THEN "rejected"
    ELSE "fulfilled"
\* Promise.all over the four calls: rejected as soon as one of them is,
\* fulfilled once all of them are.
PromiseAll(reqs) ==
    IF \E k \in Kinds : reqs[k] = "rejected" THEN "rejected"
    ELSE IF \A k \in Kinds : reqs[k] = "fulfilled" THEN "fulfilled"
    ELSE "pending"

\* err.message || <the fallback text>
ErrMessage(err) == IF err = "" THEN "ERR_UNEXPECTED" ELSE err

\* (variant: the catch block reports the error but leaves the status)
CatchKeepsStatus(err) ==
    /\ UNCHANGED status
    /\ errorMsg' = ErrMessage(err)
    /\ pc' = "idle"
\* The catch block of handleGenerate.
Catch(err) ==
    /\ status' = "ERROR"
    /\ errorMsg' = ErrMessage(err)
    /\ pc' = "idle"

\* onChange of the prompt textarea.
setPrompt(text) ==
    /\ text # prompt
    /\ prompt' = text
    /\ UNCHANGED <<refImage, status, statusMessage, errorMsg, originalImage,
                   slicedImages, banner, logo, metaData, pc, params, batch,
                   requests, stale, calls, sliceVars, fitVars>>
    /\ UNCHANGED <<zipVars, genVars>>

\* handleFileChange: a reference image is chosen.
handleFileChange ==
    /\ refImage' = "file"
    /\ UNCHANGED <<prompt, status, statusMessage, errorMsg, originalImage,
                   slicedImages, banner, logo, metaData, pc, params, batch,
                   requests, stale, calls, sliceVars, fitVars>>
    /\ UNCHANGED <<zipVars, genVars>>

\* (variant: the button is disabled only while generating)
generateDisabledWhileGenerating == status = "GENERATING"
\* The disabled attribute of the generate button.
generateDisabled == status \in {"GENERATING", "PROCESSING"}

\* A click on the generate button: handleGenerate up to its first await.
\* The requests of an earlier batch that are still in flight stay in flight.
handleGenerate ==
    /\ ~generateDisabled
    /\ IF trim(prompt) = <<>>
       THEN /\ errorMsg' = "ERR_PROMPT_REQUIRED"
            /\ UNCHANGED <<status, statusMessage, pc, params, batch,
                           requests, stale, calls>>
       ELSE /\ batch < MaxBatches
            /\ errorMsg' = "null"
            /\ status' = "GENERATING"
            /\ statusMessage' = "MSG_INIT"
            /\ pc' = "ensureApiKey"
            /\ params' = [userPrompt |-> prompt, refImage |-> refImage]
            /\ batch' = batch + 1
            /\ stale' = stale + Cardinality({k \in Kinds :
                                                requests[k] = "pending"})
            /\ requests' = NoRequests
            /\ calls' = NoCalls
    /\ UNCHANGED <<prompt, refImage, originalImage, slicedImages, banner,
                   logo, metaData, sliceVars, fitVars>>
    /\ UNCHANGED <<zipVars, genVars>>

\* (variant: the calls awaited one after the other; only the first is made)
PromiseAllCallsFirstOnly == {"meme"}
\* The calls in the array handed to Promise.all; all are made before the
\* handler awaits.
PromiseAllCalls == Kinds

\* const [...] = await Promise.all([generateMemeImage(params), ...])
IssueRequests ==
    /\ statusMessage' = "MSG_GENERATING"
    /\ requests' = [k \in Kinds |->
                       IF k \in PromiseAllCalls THEN "pending"
                       ELSE requests[k]]
    /\ calls' = [c \in Kinds \cup Transforms |->
                    IF c \in PromiseAllCalls THEN calls[c] + 1 ELSE calls[c]]
    /\ pc' = "promiseAll"

\* await ensureApiKey() resolves; without a reference image the handler runs
\* on to Promise.all.
EnsureApiKeyResolved ==
    /\ pc = "ensureApiKey"
    /\ IF params.refImage = "none"
       THEN IssueRequests
       ELSE /\ pc' = "fileToBase64"
            /\ UNCHANGED <<statusMessage, requests, calls>>
    /\ UNCHANGED <<prompt, refImage, status, errorMsg, originalImage,
                   slicedImages, banner, logo, metaData, params, batch,
                   stale, sliceVars, fitVars>>
    /\ UNCHANGED <<zipVars, genVars>>

\* await ensureApiKey() rejects (the host's key dialog fails).
EnsureApiKeyRejected ==
    /\ pc = "ensureApiKey"
    /\ \E err \in {"", "ERR_KEY"} : Catch(err)
    /\ UNCHANGED <<prompt, refImage, statusMessage, originalImage,
                   slicedImages, banner, logo, metaData, params, batch,
                   requests, stale, calls, sliceVars, fitVars>>
    /\ UNCHANGED <<zipVars, genVars>>

\* await fileToBase64(refImage) resolves.
FileToBase64Resolved ==
    /\ pc = "fileToBase64"
    /\ IssueRequests
    /\ UNCHANGED <<prompt, refImage, status, errorMsg, originalImage,
                   slicedImages, banner, logo, metaData, params, batch,
                   stale, sliceVars, fitVars>>
    /\ UNCHANGED <<zipVars, genVars>>

\* await fileToBase64(refImage) rejects with the reader's error event, which
\* has no message.
FileToBase64Rejected ==
    /\ pc = "fileToBase64"
    /\ Catch("")
    /\ UNCHANGED <<prompt, refImage, statusMessage, originalImage,
                   slicedImages, banner, logo, metaData, params, batch,
                   requests, stale, calls, sliceVars, fitVars>>
    /\ UNCHANGED <<zipVars, genVars>>

\* The texts the metadata call of a batch is answered with: the answer
\* asked for, and null.
AppMetadataResponses ==
    {TextResponse(TRUE, MetadataAnswer), TextResponse(TRUE, <<NullTok>>)}

\* What setMetaData(meta) stores: null, or the object, of which the title
\* and the description are read, tagged with the batch that produced it.
MetaDataOf(meta) ==
    IF meta = JSONNull
    THEN Null
    ELSE [batch |-> batch, title |-> Member(meta, TitleKey),
          description |-> Member(meta, DescriptionKey)]

\* Lines 76-84: the handler resumes after Promise.all has fulfilled.
AfterPromiseAll ==
    \E img \in EncodedImages(Tag("meme"), AppCompositeSizes),
       response \in AppMetadataResponses :
        /\ originalImage' = img
        /\ metaData' =
               MetaDataOf(generateMemeMetadataBody(params, response).value)
        /\ status' = "PROCESSING"
        /\ statusMessage' = "MSG_PROCESSING"
        /\ sliceMemeGrid(img)
        /\ calls' = [calls EXCEPT !["sliceMemeGrid"] = @ + 1]
        /\ pc' = "sliceMemeGrid"

\* One generation call of the running batch fulfils.
RequestFulfilled(k) ==
    /\ requests[k] = "pending"
    /\ requests' = [requests EXCEPT ![k] = "fulfilled"]
    /\ IF pc = "promiseAll" /\ PromiseAll(requests') = "fulfilled"
       THEN /\ AfterPromiseAll
            /\ UNCHANGED <<errorMsg>>
       ELSE UNCHANGED <<status, statusMessage, errorMsg, originalImage,
                        metaData, pc, calls, sliceVars>>
    /\ UNCHANGED <<prompt, refImage, slicedImages, banner, logo, params,
                   batch, stale, fitVars>>
    /\ UNCHANGED <<zipVars, genVars>>

\* One generation call of the running batch rejects. A reason that nothing
\* awaits any more is dropped, so one reason stands for all of them there.
RequestRejected(k, err) ==
    /\ requests[k] = "pending"
    /\ pc # "promiseAll" => err = ServiceError
    /\ requests' = [requests EXCEPT ![k] = "rejected"]
    /\ IF pc = "promiseAll" /\ PromiseAll(requests') = "rejected"
       THEN Catch(err)
       ELSE IF pc = "promiseAll" /\ PromiseAll(requests') = "fulfilled"
       THEN /\ AfterPromiseAll
            /\ UNCHANGED <<errorMsg>>
       ELSE UNCHANGED <<status, errorMsg, pc>>
    /\ IF pc = "promiseAll" /\ PromiseAll(requests') = "fulfilled"
       THEN TRUE
       ELSE UNCHANGED <<statusMessage, originalImage, metaData, calls,
                        sliceVars>>
    /\ UNCHANGED <<prompt, refImage, slicedImages, banner, logo, params,
                   batch, stale, fitVars>>
    /\ UNCHANGED <<zipVars, genVars>>

\* A request of an earlier batch settles; nothing awaits it any more.
StaleRequestSettles ==
    /\ stale > 0
    /\ stale' = stale - 1
    /\ UNCHANGED <<prompt, refImage, status, statusMessage, errorMsg,
                   originalImage, slicedImages, banner, logo, metaData, pc,
                   params, batch, requests, calls, sliceVars, fitVars>>
    /\ UNCHANGED <<zipVars, genVars>>

\* (variant: the banner fitted to the logo's square)
processBannerSquare(img) ==
    processImage(img, LogoSize, LogoSize, BannerFileName)
\* processImage(bannerBase64, 750, 400, 'banner.png')
processBanner(img) ==
    processImage(img, BannerWidth, BannerHeight, BannerFileName)
\* processImage(logoBase64, 512, 512, 'logo.png')
processLogo(img) ==
    processImage(img, LogoSize, LogoSize, LogoFileName)

\* Lines 85-88: the handler resumes after await sliceMemeGrid(memeBase64); p
\* is the settled promise.  Nothing refers to the promise and its Image once
\* the await has delivered.
AfterSliceMemeGrid(p) ==
    /\ slicePromise' = NoPromise
    /\ sliceImg' = NoImg
    /\ IF p.state = "fulfilled"
       THEN \E img \in EncodedImages(Tag("banner"), AppBannerSizes) :
               /\ slicedImages' = p.value
               /\ processBanner(img)
               /\ calls' = [calls EXCEPT !["processBanner"] = @ + 1]
               /\ pc' = "processBanner"
               /\ UNCHANGED <<status, errorMsg>>
       ELSE /\ Catch(p.reason)
            /\ UNCHANGED <<slicedImages, calls, fitVars>>

\* Lines 89-96: the handler resumes after an await processImage(...); p is
\* the settled promise.
AfterProcessImage(p) ==
    IF p.state = "fulfilled" /\ pc = "processBanner"
    THEN \E img \in EncodedImages(Tag("logo"), AppLogoSizes) :
            /\ banner' = p.value
            /\ processLogo(img)
            /\ calls' = [calls EXCEPT !["processLogo"] = @ + 1]
            /\ pc' = "processLogo"
            /\ UNCHANGED <<status, statusMessage, errorMsg, logo>>
    ELSE IF p.state = "fulfilled"
    THEN /\ logo' = p.value
         /\ status' = "COMPLETE"
         /\ statusMessage' = ""
         /\ pc' = "idle"
         /\ fitPromise' = NoPromise
         /\ fitImg' = NoImg
         /\ UNCHANGED <<errorMsg, banner, calls>>
    ELSE /\ Catch(p.reason)
         /\ fitPromise' = NoPromise
         /\ fitImg' = NoImg
         /\ UNCHANGED <<statusMessage, banner, logo, calls>>

\* (variant: reset empties the form as well)
resetClearsForm ==
    /\ status = "COMPLETE"
    /\ status' = "IDLE"
    /\ originalImage' = Null
    /\ slicedImages' = <<>>
    /\ banner' = Null
    /\ logo' = Null
    /\ metaData' = Null
    /\ errorMsg' = "null"
    /\ prompt' = <<>>
    /\ refImage' = "none"
    /\ UNCHANGED <<statusMessage, pc, params, batch, requests, stale, calls,
                   sliceVars, fitVars>>
    /\ UNCHANGED <<zipVars, genVars>>
\* The "start over" button, rendered only when the status is COMPLETE.
reset ==
    /\ status = "COMPLETE"
    /\ status' = "IDLE"
    /\ originalImage' = Null
    /\ slicedImages' = <<>>
    /\ banner' = Null
    /\ logo' = Null
    /\ metaData' = Null
    /\ errorMsg' = "null"
    /\ UNCHANGED <<prompt, refImage, statusMessage, pc, params, batch,
                   requests, stale, calls, sliceVars, fitVars>>
    /\ UNCHANGED <<zipVars, genVars>>

----------------------------------------------------------------------------
(* The events of the Images that sliceMemeGrid and processImage decode *)

\* The load event of sliceMemeGrid's Image: img.onload runs, and the handler
\* awaiting the promise, if any, resumes.
SliceOnload ==
    /\ sliceImg.event = "none"
    /\ sliceImg.src.decodes
    /\ \E ctxOk \in BOOLEAN :
          LET p == SliceOnloadBody(slicePromise, sliceImg.src, ctxOk)
              i == [sliceImg EXCEPT !.event = "load",
                       !.ctx = IF ctxOk THEN "2d" ELSE "null"]
          IN  IF pc = "sliceMemeGrid"
              THEN /\ AfterSliceMemeGrid(p)
                   /\ UNCHANGED <<prompt, refImage, statusMessage,
                                  originalImage, banner, logo, metaData,
                                  params, batch, requests, stale>>
              ELSE /\ slicePromise' = p
                   /\ sliceImg' = i
                   /\ UNCHANGED <<appVars, fitVars>>
    /\ UNCHANGED <<zipVars, genVars>>

\* The error event of sliceMemeGrid's Image: img.onerror runs.
SliceOnerror ==
    /\ sliceImg.event = "none"
    /\ ~sliceImg.src.decodes
    /\ LET p == SliceOnerrorBody(slicePromise)
           i == [sliceImg EXCEPT !.event = "error"]
       IN  IF pc = "sliceMemeGrid"
           THEN /\ AfterSliceMemeGrid(p)
                /\ UNCHANGED <<prompt, refImage, statusMessage,
                               originalImage, banner, logo, metaData,
                               params, batch, requests, stale>>
           ELSE /\ slicePromise' = p
                /\ sliceImg' = i
                /\ UNCHANGED <<appVars, fitVars>>
    /\ UNCHANGED <<zipVars, genVars>>

\* The load event of processImage's Image.
FitOnload ==
    /\ fitImg.event = "none"
    /\ fitImg.src.decodes
    /\ \E ctxOk \in BOOLEAN :
          LET p == FitOnloadBody(fitPromise, fitImg, ctxOk)
              f == [fitImg EXCEPT !.event = "load",
                       !.ctx = IF ctxOk THEN "2d" ELSE "null"]
          IN  IF pc \in {"processBanner", "processLogo"}
              THEN /\ AfterProcessImage(p)
                   /\ UNCHANGED <<prompt, refImage, originalImage,
                                  slicedImages, metaData, params, batch,
                                  requests, stale, sliceVars>>
              ELSE /\ fitPromise' = p
                   /\ fitImg' = f
                   /\ UNCHANGED <<appVars, sliceVars>>
    /\ UNCHANGED <<zipVars, genVars>>

\* The error event of processImage's Image.
FitOnerror ==
    /\ fitImg.event = "none"
    /\ ~fitImg.src.decodes
    /\ LET p == FitOnerrorBody(fitPromise)
           f == [fitImg EXCEPT !.event = "error"]
       IN  IF pc \in {"processBanner", "processLogo"}
           THEN /\ AfterProcessImage(p)
                /\ UNCHANGED <<prompt, refImage, originalImage,
                               slicedImages, metaData, params, batch,
                               requests, stale, sliceVars>>
           ELSE /\ fitPromise' = p
                /\ fitImg' = f
                /\ UNCHANGED <<appVars, sliceVars>>
    /\ UNCHANGED <<zipVars, genVars>>

----------------------------------------------------------------------------
(* The application *)

Init ==
    /\ AppInit
    /\ ZipIdle
    /\ GenIdle
    /\ sliceImg = NoImg
    /\ slicePromise = NoPromise
    /\ fitImg = NoImg
    /\ fitPromise = NoPromise

Next ==
    \/ \E text \in Prompts : setPrompt(text)
    \/ handleFileChange
    \/ handleGenerate
    \/ EnsureApiKeyResolved
    \/ EnsureApiKeyRejected
    \/ FileToBase64Resolved
    \/ FileToBase64Rejected
    \/ \E k \in Kinds : RequestFulfilled(k)
    \/ \E k \in Kinds : \E err \in RequestErrors(k) : RequestRejected(k, err)
    \/ StaleRequestSettles
    \/ SliceOnload
    \/ SliceOnerror
    \/ FitOnload
    \/ FitOnerror
    \/ reset

Spec == Init /\ [][Next]_vars

----------------------------------------------------------------------------
(* The slicer on its own: sliceMemeGrid applied to one encoded image *)

SmallSizes == (1 .. MaxWidth) \X (1 .. MaxHeight)

\* sliceMemeGrid has just been called on one of the given images.
SliceCalled(inputs) ==
    /\ AppInit
    /\ ZipIdle
    /\ GenIdle
    /\ fitImg = NoImg
    /\ fitPromise = NoPromise
    /\ \E img \in inputs :
          /\ sliceImg = [src |-> img, event |-> "none", ctx |-> "unset"]
          /\ slicePromise = PendingPromise

SliceInit ==
    SliceCalled(EncodedImages(Tag("meme"),
        SmallSizes \cup LargeCellSizes \cup ScenarioSizes))

\* The inputs whose slices are examined pixel by pixel.
SlicePixelInit ==
    SliceCalled(EncodedImages(Tag("meme"), SmallSizes \cup LargeCellSizes))

SliceNext == SliceOnload \/ SliceOnerror

SliceSpec == SliceInit /\ [][SliceNext]_vars

SlicePixelSpec == SlicePixelInit /\ [][SliceNext]_vars

----------------------------------------------------------------------------
(* The resizer on its own: processImage applied to one encoded image *)

\* Source and target sizes: every size up to the bounds ...
MaxSource == 4
MaxTarget == 4
\* ... and the sizes of the spec's scenario (1000x1000 to 750x400), of the
\* two calls App makes (750x400, 512x512) on images of the aspect ratios it
\* asks the generator for, and of sources smaller than their target.
FitScenarios ==
    { <<1000, 1000, 750, 400>>, <<2048, 1152, 750, 400>>,
      <<2048, 1152, 512, 512>>,
      <<1024, 1024, 512, 512>>, <<1376, 768, 750, 400>>,
      <<300, 200, 750, 400>>, <<100, 100, 512, 512>> }

FitCases ==
    ((1 .. MaxSource) \X (1 .. MaxSource)
        \X (1 .. MaxTarget) \X (1 .. MaxTarget)) \cup FitScenarios

FitInit ==
    /\ AppInit
    /\ ZipIdle
    /\ GenIdle
    /\ sliceImg = NoImg
    /\ slicePromise = NoPromise
    /\ fitPromise = PendingPromise
    /\ \E c \in FitCases, decodes \in BOOLEAN,
          fileName \in {BannerFileName, LogoFileName} :
          fitImg = [src |-> Image(Tag("asset"), decodes,
                                  IF decodes THEN c[1] ELSE 0,
                                  IF decodes THEN c[2] ELSE 0),
                    event |-> "none", ctx |-> "unset",
                    targetWidth |-> c[3], targetHeight |-> c[4],
                    fileName |-> fileName]

FitNext == FitOnload \/ FitOnerror

FitSpec == FitInit /\ [][FitNext]_vars

----------------------------------------------------------------------------
(* The archive writer on its own: one call of downloadBatch *)

\* What a completed batch yields: the 24 slices, the banner and the logo.
ZipTag(kind) == [batch |-> 1, kind |-> kind]
ZipImage == Image(ZipTag("meme"), TRUE, 12, 8)
ZipSlices == SliceLoop(ZipImage, 0, 0, <<>>)
ZipBanner ==
    MarketingAsset(Image(ZipTag("banner"), TRUE, 1376, 768),
                   BannerWidth, BannerHeight, BannerFileName)
ZipLogo ==
    MarketingAsset(Image(ZipTag("logo"), TRUE, 1024, 1024),
                   LogoSize, LogoSize, LogoFileName)

\* Arguments of a direct call: no, few or all slices, and a list in which
\* two slices carry the same file name; the extra assets; the metadata, if
\* any, with a description of one line, of two lines, or empty.
ZipSliceLists ==
    {SubSeq(ZipSlices, 1, n) : n \in {0, 1, 2, Len(ZipSlices)}}
        \cup {<<ZipSlices[1], ZipSlices[2],
                [ZipSlices[3] EXCEPT !.fileName = ZipSlices[1].fileName]>>}
ZipAssetLists == {<<>>, <<ZipBanner>>, <<ZipLogo>>, <<ZipBanner, ZipLogo>>}
ZipMetaData ==
    { [title |-> <<"T">>, description |-> <<"d">>],
      [title |-> <<"T", "1">>, description |-> <<"d", LF, "e">>],
      [title |-> <<>>, description |-> <<>>] }

\* The App states in which the download button is shown: the slices are
\* held, with the banner and the logo (COMPLETE), or without the logo or
\* without both after a failed fit (ERROR).
AppHolds(b, l, md) ==
    /\ batch = 1
    /\ prompt = <<"c", "a", "t">>
    /\ refImage = "none"
    /\ status = IF l # Null THEN "COMPLETE" ELSE "ERROR"
    /\ statusMessage = IF l # Null THEN "" ELSE "MSG_PROCESSING"
    /\ errorMsg = IF l # Null THEN "null" ELSE "Image processing failed"
    /\ originalImage = ZipImage
    /\ slicedImages = ZipSlices
    /\ banner = b
    /\ logo = l
    /\ metaData = [batch |-> 1, title |-> md.title,
                   description |-> md.description]
    /\ pc = "idle"
    /\ params = [userPrompt |-> <<"c", "a", "t">>, refImage |-> "none"]
    /\ requests = [k \in Kinds |-> "fulfilled"]
    /\ stale = 0
    /\ calls = [c \in Kinds \cup Transforms |->
                   IF c = "processLogo" /\ b = Null THEN 0 ELSE 1]

ZipInit ==
    /\ GenIdle
    /\ sliceImg = NoImg
    /\ slicePromise = NoPromise
    /\ fitImg = NoImg
    /\ fitPromise = NoPromise
    /\ zip = <<>>
    /\ zipPc = "called"
    /\ saved = <<>>
    /\ \/ /\ AppInit
          /\ \E sl \in ZipSliceLists, as \in ZipAssetLists,
                md \in ZipMetaData \cup {Null} :
                zipArgs = [slices |-> sl, extraAssets |-> as,
                           metaData |-> md]
       \/ /\ \E bl \in {<<Null, Null>>, <<ZipBanner, Null>>,
                         <<ZipBanner, ZipLogo>>},
                md \in ZipMetaData :
                AppHolds(bl[1], bl[2], md)
          /\ zipArgs = handleDownloadAllArgs

ZipNext == downloadBatch \/ GenerateAsyncResolved

ZipSpec == ZipInit /\ [][ZipNext]_vars

----------------------------------------------------------------------------
(* A generation call on its own: generateContent and what follows it *)

\* The user prompts: a short one, one of exactly MaxDescription characters
\* and one longer than that.
PromptOfLength(n) ==
    [i \in 1 .. n |-> <<"0", "1", "2", "3", "4", "5", "6", "7", "8",
                        "9">>[(i % 10) + 1]]
GenPrompts ==
    {<<"c", "a", "t">>, PromptOfLength(MaxDescription),
     PromptOfLength(MaxDescription + 3)}

GenInit ==
    /\ AppInit
    /\ ZipIdle
    /\ sliceImg = NoImg
    /\ slicePromise = NoPromise
    /\ fitImg = NoImg
    /\ fitPromise = NoPromise
    /\ \E kind \in Kinds, userPrompt \in GenPrompts :
          genCall = [kind |-> kind, params |-> [userPrompt |-> userPrompt]]
    /\ svcResponse = Null
    /\ genResult = [state |-> "pending", value |-> "", reason |-> ""]

\* await ai.models.generateContent(...) resolves with a response, and the
\* rest of the async function runs.
GenerateContentResolved ==
    /\ genResult.state = "pending"
    /\ IF genCall.kind \in ImageKinds
       THEN \E response \in ImageResponses :
               /\ svcResponse' = response
               /\ genResult' = generateImageBody(response)
       ELSE \E response \in MetadataResponses :
               /\ svcResponse' = response
               /\ genResult' =
                      generateMemeMetadataBody(genCall.params, response)
    /\ UNCHANGED <<genCall, appVars, sliceVars, fitVars, zipVars>>

\* await ai.models.generateContent(...) rejects.
GenerateContentRejected ==
    /\ genResult.state = "pending"
    /\ genResult' = Throw(ServiceError)
    /\ UNCHANGED <<genCall, svcResponse, appVars, sliceVars, fitVars,
                   zipVars>>

GenNext == GenerateContentResolved \/ GenerateContentRejected

GenSpec == GenInit /\ [][GenNext]_vars

----------------------------------------------------------------------------
(* Properties of sliceMemeGrid, checked under SliceSpec; the pixel-level    *)
(* ones (C2) under SlicePixelSpec                                          *)

SliceFulfilled == slicePromise.state = "fulfilled"
SliceCount == COLS * ROWS
CompositeW == sliceImg.src.width
CompositeH == sliceImg.src.height
SlicePicture(k) == slicePromise.value[k].dataUrl.picture
RowOf(k) == (k - 1) \div COLS
ColOf(k) == (k - 1) % COLS

\* The decimal number written by a sequence of digit characters.
RECURSIVE ParseDecimal(_)
ParseDecimal(s) ==
    IF s = <<>> THEN 0
    ELSE 10 * ParseDecimal(SubSeq(s, 1, Len(s) - 1))
            + (CharCode(s[Len(s)]) - CharCode("0"))

\* The index a slice carries: the number after "meme-" in its id.
IndexOf(slice) == ParseDecimal(SubSeq(slice.id, 6, Len(slice.id)))

\* C1: a fulfilled sliceMemeGrid holds exactly COLS*ROWS = 24 slices in
\* row-major order: the k-th slice is drawn from the cell at row (k-1) div 6,
\* column (k-1) mod 6, and carries index k, so the indices are 1..24 without
\* gap or duplicate.
C1_RowMajorOrder ==
    SliceFulfilled =>
        /\ Len(slicePromise.value) = 24
        /\ \A k \in 1 .. Len(slicePromise.value) :
              /\ IndexOf(slicePromise.value[k]) = k
              /\ slicePromise.value[k].id
                    = <<"m", "e", "m", "e", "-">> \o toString(k)
              /\ REq(SlicePicture(k).sx, Rat(ColOf(k) * CompositeW, 6))
              /\ REq(SlicePicture(k).sy, Rat(RowOf(k) * CompositeH, 4))
        /\ {IndexOf(slicePromise.value[k]) :
                k \in 1 .. Len(slicePromise.value)} = 1 .. 24

C1_Witness ==
    /\ SliceFulfilled
    /\ CompositeW = 3840
    /\ Len(slicePromise.value) = 24
    /\ IndexOf(slicePromise.value[8]) = 8
    /\ REq(SlicePicture(8).sx, RInt(640))
    /\ REq(SlicePicture(8).sy, RInt(540))

\* C7: sliceMemeGrid is all-or-nothing.  Before the Image's event it is
\* pending; the event settles it exactly once; a decode failure or a missing
\* 2D context rejects it with an error and no slices; a fulfilled result
\* always holds all 24 slices.
C7_AllOrNothing ==
    /\ slicePromise.settleCalls <= 1
    /\ sliceImg.event = "none" =>
          slicePromise.state = "pending" /\ slicePromise.settleCalls = 0
    /\ sliceImg.event \in {"load", "error"} =>
          /\ slicePromise.settleCalls = 1
          /\ slicePromise.state \in {"fulfilled", "rejected"}
    /\ (sliceImg.event = "error" \/ sliceImg.ctx = "null") =>
          /\ slicePromise.state = "rejected"
          /\ slicePromise.reason # "none"
    /\ (sliceImg.event # "none" /\ ~sliceImg.src.decodes) =>
          slicePromise.state = "rejected"
    /\ slicePromise.state = "rejected" => slicePromise.value = <<>>
    /\ slicePromise.state = "fulfilled" =>
          /\ Len(slicePromise.value) = 24
          /\ slicePromise.reason = "none"

C7_Witness ==
    /\ sliceImg.event = "load"
    /\ sliceImg.ctx = "null"
    /\ slicePromise.state = "rejected"
    /\ slicePromise.reason = "Could not get canvas context"
    /\ slicePromise.value = <<>>
    /\ slicePromise.settleCalls = 1

\* floor(a / b) = q, stated without division.
IsFloorOf(q, a, b) == b * q <= a /\ a < b * (q + 1)

\* C8 as stated: every slice is floor(W/6) x floor(H/4), and the source
\* region copied into it has that same integer size.
C8_SourceRegionIsIntegerSized ==
    SliceFulfilled =>
        \A k \in 1 .. Len(slicePromise.value) :
            /\ IsFloorOf(SlicePicture(k).width, CompositeW, 6)
            /\ IsFloorOf(SlicePicture(k).height, CompositeH, 4)
            /\ REq(SlicePicture(k).sw, RInt(SlicePicture(k).width))
            /\ REq(SlicePicture(k).sh, RInt(SlicePicture(k).height))

\* C8 (amended): every slice is floor(W/6) x floor(H/4); the source region
\* copied into it is the unrounded W/6 x H/4, which is the slice's integer
\* size exactly when 6 divides W and 4 divides H; a 3840x2160 composite gives
\* 24 slices of 640x540 copied from 640x540 regions.
C8_SliceDimensions ==
    SliceFulfilled =>
        /\ \A k \in 1 .. Len(slicePromise.value) :
              /\ IsFloorOf(SlicePicture(k).width, CompositeW, 6)
              /\ IsFloorOf(SlicePicture(k).height, CompositeH, 4)
              /\ 6 * SlicePicture(k).sw.n = CompositeW * SlicePicture(k).sw.d
              /\ 4 * SlicePicture(k).sh.n = CompositeH * SlicePicture(k).sh.d
              /\ REq(SlicePicture(k).sw, RInt(SlicePicture(k).width))
                    <=> CompositeW % 6 = 0
              /\ REq(SlicePicture(k).sh, RInt(SlicePicture(k).height))
                    <=> CompositeH % 4 = 0
        /\ (CompositeW = 3840 /\ CompositeH = 2160) =>
              /\ Len(slicePromise.value) = 24
              /\ \A k \in 1 .. 24 :
                    /\ SlicePicture(k).width = 640
                    /\ SlicePicture(k).height = 540
                    /\ REq(SlicePicture(k).sw, RInt(640))
                    /\ REq(SlicePicture(k).sh, RInt(540))

C8_Witness ==
    /\ SliceFulfilled
    /\ CompositeW = 3840
    /\ CompositeH = 2160
    /\ SlicePicture(24).width = 640
    /\ SlicePicture(24).height = 540

\* "meme_NN.png" for a number below 100, written out digit by digit.
ExpectedFileName(k) ==
    <<"m", "e", "m", "e", "_", Digits[(k \div 10) + 1], Digits[(k % 10) + 1],
      ".", "p", "n", "g">>

\* C9: the k-th slice's file name is meme_NN.png with NN its index padded to
\* two digits; the 24 names are pairwise distinct and their lexicographic
\* order is the order of the indices (the row-major order of the cells).
C9_FileNames ==
    SliceFulfilled =>
        /\ \A k \in 1 .. Len(slicePromise.value) :
              slicePromise.value[k].fileName
                  = ExpectedFileName(IndexOf(slicePromise.value[k]))
        /\ \A a, b \in 1 .. Len(slicePromise.value) :
              /\ a # b => slicePromise.value[a].fileName
                              # slicePromise.value[b].fileName
              /\ StrLess(slicePromise.value[a].fileName,
                         slicePromise.value[b].fileName)
                    <=> IndexOf(slicePromise.value[a])
                            < IndexOf(slicePromise.value[b])
              /\ StrLess(slicePromise.value[a].fileName,
                         slicePromise.value[b].fileName)
                    <=> \/ RLt(SlicePicture(a).sy, SlicePicture(b).sy)
                        \/ /\ REq(SlicePicture(a).sy, SlicePicture(b).sy)
                           /\ RLt(SlicePicture(a).sx, SlicePicture(b).sx)

C9_Witness ==
    /\ SliceFulfilled
    /\ slicePromise.value[9].fileName
          = <<"m", "e", "m", "e", "_", "0", "9", ".", "p", "n", "g">>
    /\ slicePromise.value[10].fileName
          = <<"m", "e", "m", "e", "_", "1", "0", ".", "p", "n", "g">>
    /\ StrLess(slicePromise.value[9].fileName, slicePromise.value[10].fileName)

\* Slice k copies, unscaled, the source rectangle of cell (row, col) to the
\* canvas origin.
UnscaledCellCopy(k) ==
    LET pic == SlicePicture(k)
    IN  /\ REq(pic.sx, Rat(ColOf(k) * CompositeW, 6))
        /\ REq(pic.sy, Rat(RowOf(k) * CompositeH, 4))
        /\ REq(pic.sw, Rat(CompositeW, 6))
        /\ REq(pic.sh, Rat(CompositeH, 4))
        /\ REq(pic.dw, pic.sw)
        /\ REq(pic.dh, pic.sh)
        /\ REq(pic.dx, RInt(0))
        /\ REq(pic.dy, RInt(0))

\* The source rectangle of slice k lies inside the composite.
SourceInsideComposite(k) ==
    LET pic == SlicePicture(k)
    IN  /\ RLeq(RInt(0), pic.sx)
        /\ RLeq(RInt(0), pic.sy)
        /\ RLeq(RAdd(pic.sx, pic.sw), RInt(CompositeW))
        /\ RLeq(RAdd(pic.sy, pic.sh), RInt(CompositeH))

\* The source rectangles of slices a and b share no area.
SourcesDisjoint(a, b) ==
    LET p == SlicePicture(a)
        q == SlicePicture(b)
    IN  \/ RLeq(RAdd(p.sx, p.sw), q.sx)
        \/ RLeq(RAdd(q.sx, q.sw), p.sx)
        \/ RLeq(RAdd(p.sy, p.sh), q.sy)
        \/ RLeq(RAdd(q.sy, q.sh), p.sy)

SourceRegionsTile ==
    /\ \A k \in 1 .. Len(slicePromise.value) :
          UnscaledCellCopy(k) /\ SourceInsideComposite(k)
    /\ \A a, b \in 1 .. Len(slicePromise.value) :
          a # b => SourcesDisjoint(a, b)

\* Pixel (i, j) of slice k, laid out in row-major order on a canvas of
\* (6 * width) x (4 * height), lands on this composite pixel.
LayoutX(k, i) == ColOf(k) * SlicePicture(k).width + i
LayoutY(k, j) == RowOf(k) * SlicePicture(k).height + j

\* Pixel (i, j) of a cell picture lies in one of the four corner squares
\* whose side is the border radius.
InCornerSquare(pic, i, j) ==
    /\ RLt(RInt(i), pic.radius)
          \/ RLt(RSub(pic.clipW, pic.radius), RInt(i + 1))
    /\ RLt(RInt(j), pic.radius)
          \/ RLt(RSub(pic.clipH, pic.radius), RInt(j + 1))

\* C2 as stated: every slice is an unscaled copy of its cell's region, the 24
\* regions tile without overlap inside the composite, and the slices laid
\* out in row-major order reproduce the composite's pixels.  (A pixel only
\* grazed by the corner rounding is counted as reproduced.)
C2_LayoutReproducesComposite ==
    SliceFulfilled =>
        /\ SourceRegionsTile
        /\ \A k \in 1 .. Len(slicePromise.value) :
              \A i \in 0 .. SlicePicture(k).width - 1 :
                  \A j \in 0 .. SlicePicture(k).height - 1 :
                      /\ ClipCoverage(SlicePicture(k), i, j) # "outside"
                      /\ ShowsSourcePixel(SlicePicture(k), i, j,
                                          LayoutX(k, i), LayoutY(k, j))

\* C2 (amended): every slice is an unscaled copy of its cell's region
\* (col*W/6, row*H/4, W/6, H/4), the 24 regions do not overlap and lie inside
\* the composite; the rounded-corner clip, which is always applied, touches
\* only pixels in the four corner squares of side 5% of the shorter cell
\* side; and when 6 divides W and 4 divides H, every pixel the clip leaves
\* whole is exactly the composite pixel it lands on in the row-major layout.
C2_UnscaledCopyOutsideMask ==
    SliceFulfilled =>
        /\ SourceRegionsTile
        /\ \A k \in 1 .. Len(slicePromise.value) :
              LET pic == SlicePicture(k)
              IN  \A i \in 0 .. pic.width - 1 :
                      \A j \in 0 .. pic.height - 1 :
                          IF ClipCoverage(pic, i, j) = "inside"
                          THEN (CompositeW % 6 = 0 /\ CompositeH % 4 = 0)
                                  => ShowsSourcePixel(pic, i, j,
                                         LayoutX(k, i), LayoutY(k, j))
                          ELSE InCornerSquare(pic, i, j)

C2_Witness ==
    /\ SliceFulfilled
    /\ CompositeW = 480
    /\ CompositeH = 320
    /\ ClipCoverage(SlicePicture(8), 0, 0) = "outside"
    /\ ClipCoverage(SlicePicture(8), 79, 79) = "outside"
    /\ ClipCoverage(SlicePicture(8), 3, 0) = "edge"
    /\ ClipCoverage(SlicePicture(8), 4, 0) = "inside"
    /\ ShowsSourcePixel(SlicePicture(8), 4, 0, 84, 80)

----------------------------------------------------------------------------
(* Properties of processImage, checked under FitSpec *)

FitFulfilled == fitPromise.state = "fulfilled"
FitPic == fitPromise.value.dataUrl.picture
SourceW == fitImg.src.width
SourceH == fitImg.src.height

\* The unit square of canvas pixel (i, j) lies inside the rectangle drawn.
PixelPainted(pic, i, j) ==
    /\ RLeq(pic.dx, RInt(i))
    /\ RLeq(RInt(i + 1), RAdd(pic.dx, pic.dw))
    /\ RLeq(pic.dy, RInt(j))
    /\ RLeq(RInt(j + 1), RAdd(pic.dy, pic.dh))

BorderPixels(pic) ==
    ({0, pic.width - 1} \X (0 .. pic.height - 1))
        \cup ((0 .. pic.width - 1) \X {0, pic.height - 1})

ScaleGrid == 8
SmallerScales(s) ==
    {RMul(s, Rat(k, ScaleGrid)) : k \in 0 .. (ScaleGrid - 1)}
        \cup {q \in {Rat(n, d) : n \in 0 .. ScaleGrid, d \in 1 .. ScaleGrid} :
                 RLt(q, s)}

C11_Centred ==
    FitFulfilled =>
        LET tw == fitImg.targetWidth
            th == fitImg.targetHeight
            s == RMax(Rat(tw, SourceW), Rat(th, SourceH))
            left == RSub(RInt(0), FitPic.dx)
            right == RSub(RAdd(FitPic.dx, FitPic.dw), RInt(tw))
            top == RSub(RInt(0), FitPic.dy)
            bottom == RSub(RAdd(FitPic.dy, FitPic.dh), RInt(th))
        IN  /\ REq(FitPic.dw, RMul(RInt(SourceW), s))
            /\ REq(FitPic.dh, RMul(RInt(SourceH), s))
            /\ REq(FitPic.dx, RSub(Rat(tw, 2),
                                   RDiv(RMul(RInt(SourceW), s), RInt(2))))
            /\ REq(FitPic.dy, RSub(Rat(th, 2),
                                   RDiv(RMul(RInt(SourceH), s), RInt(2))))
            /\ REq(left, right)
            /\ REq(top, bottom)
            /\ (SourceW = 1000 /\ SourceH = 1000 /\ tw = 750 /\ th = 400)
                  => /\ REq(s, Rat(3, 4))
                     /\ REq(FitPic.dw, RInt(750))
                     /\ REq(FitPic.dh, RInt(750))
                     /\ REq(FitPic.dx, RInt(0))
                     /\ REq(FitPic.dy, RInt(-175))

\* The spec's scenario: 1000x1000 fitted to 750x400, 175 pixels clipped at
\* the top and 175 at the bottom.
C11_Witness ==
    /\ FitFulfilled
    /\ SourceW = 1000
    /\ SourceH = 1000
    /\ fitImg.targetWidth = 750
    /\ fitImg.targetHeight = 400
    /\ REq(FitPic.dy, RInt(-175))
    /\ REq(RAdd(FitPic.dy, FitPic.dh), RInt(575))

\* The source and the target have the same aspect ratio.
SameAspect == SourceW * fitImg.targetHeight = SourceH * fitImg.targetWidth

----------------------------------------------------------------------------
(* Properties of handleGenerate, under Spec *)

Settled == {"fulfilled", "rejected"}
Issued == \E k \in Kinds : requests[k] # "none"

\* C4 (as stated): the four generation requests of a batch are all issued
\* before any of them completes, and the batch leaves GENERATING, to
\* PROCESSING or to ERROR, only once all four requests have settled.
C4_LeavesGeneratingOnceAllSettled ==
    [][ /\ (\E k \in Kinds : requests[k] = "none" /\ requests'[k] # "none")
           => \A k \in Kinds : requests'[k] = "pending"
        /\ (status = "GENERATING" /\ status' # "GENERATING" /\ Issued)
           => \A k \in Kinds : requests'[k] \in Settled ]_vars

\* C4 (amended): the four requests are issued in one step, before any of
\* them completes.  The batch goes from GENERATING to PROCESSING only in the
\* step in which the last of the four fulfils; it goes to ERROR in the very
\* step in which the first of them rejects, whatever the state of the other
\* three, or when a step that precedes the requests fails; while the status
\* is GENERATING no request of the batch has rejected.
C4_JoinOnFulfilRaceOnReject ==
    /\ [](status = "GENERATING" => \A k \in Kinds : requests[k] # "rejected")
    /\ []((\A k \in Kinds : requests[k] = "none") \/
          (\A k \in Kinds : requests[k] # "none"))
    /\ [][ /\ (\E k \in Kinds : requests[k] = "none" /\ requests'[k] # "none")
              => \A k \in Kinds : requests'[k] = "pending"
           /\ (status = "GENERATING" /\ status' # "GENERATING")
              => \/ /\ status' = "PROCESSING"
                    /\ \A k \in Kinds : requests'[k] = "fulfilled"
                    /\ \E k \in Kinds : requests[k] = "pending"
                 \/ /\ status' = "ERROR"
                    /\ \E k \in Kinds : /\ requests[k] = "pending"
                                        /\ requests'[k] = "rejected"
                    /\ \A k \in Kinds : requests[k] # "rejected"
                 \/ /\ status' = "ERROR"
                    /\ ~Issued
                    /\ UNCHANGED requests ]_vars

\* A batch that has gone to ERROR on a rejection while another of its
\* requests is still in flight.
C4_Witness ==
    /\ status = "ERROR"
    /\ pc = "idle"
    /\ \E k \in Kinds : requests[k] = "rejected"
    /\ \E k \in Kinds : requests[k] = "pending"

\* C5: if one of the four generation requests of a batch fails, the batch is
\* in the ERROR state with an error message, neither sliceMemeGrid nor
\* processImage has been invoked for the batch, and every generator has been
\* called at most once in the batch.
C5_FailedRequestFailsBatch ==
    /\ \A k \in Kinds : calls[k] <= 1
    /\ (\E k \in Kinds : requests[k] = "rejected")
       => /\ status = "ERROR"
          /\ errorMsg \notin {"null", ""}
          /\ \A t \in Transforms : calls[t] = 0
          /\ \A k \in Kinds : calls[k] = 1

\* A failed batch of which one request rejected and the other three
\* fulfilled.
C5_Witness ==
    /\ status = "ERROR"
    /\ \E k \in Kinds :
          /\ requests[k] = "rejected"
          /\ \A j \in Kinds \ {k} : requests[j] = "fulfilled"
    /\ \A k \in Kinds : calls[k] = 1

\* C6: whenever the status is ERROR, the original image, the slice list, the
\* banner, the logo and the metadata are all empty.
C6_NoPartialResultOnError ==
    status = "ERROR"
    => /\ originalImage = Null
       /\ slicedImages = <<>>
       /\ banner = Null
       /\ logo = Null
       /\ metaData = Null

\* C13 (as stated): when one of the four generation calls is rejected the
\* status becomes the idle state, with the generate action enabled.
C13_ReturnsToIdle ==
    (\E k \in Kinds : requests[k] = "rejected")
        => status = "IDLE" /\ ~generateDisabled

\* C13 (amended): when one of the four generation calls is rejected the
\* status becomes ERROR, not IDLE, and stays so until the next batch is
\* started; in that state the generate action is enabled, and starting it
\* opens a new batch whose requests, once issued, are again all four.
C13_ErrorIsRetryable ==
    /\ []((\E k \in Kinds : requests[k] = "rejected")
             => status = "ERROR" /\ pc = "idle" /\ ~generateDisabled)
    /\ [][ /\ (status = "ERROR" /\ status' # "ERROR")
              => /\ status' = "GENERATING"
                 /\ batch' = batch + 1
                 /\ pc' = "ensureApiKey"
                 /\ errorMsg' = "null"
                 /\ requests' = NoRequests
                 /\ calls' = NoCalls
           /\ (requests = NoRequests /\ requests' # NoRequests)
              => \A k \in Kinds : requests'[k] = "pending" /\ calls'[k] = 1
         ]_vars

\* The retry: a second batch has issued its four requests while requests of
\* the first batch, which failed on a rejection, are still in flight.
C13_Witness ==
    /\ batch = 2
    /\ stale > 0
    /\ status = "GENERATING"
    /\ \A k \in Kinds : requests[k] = "pending" /\ calls[k] = 1

----------------------------------------------------------------------------
(* Properties of downloadBatch, checked under ZipSpec *)

FileEntries(z) == {z[i] : i \in {j \in 1 .. Len(z) : ~z[j].dir}}
FileNames(z) == {e.name : e \in FileEntries(z)}
EntryData(z, name) == (CHOOSE e \in FileEntries(z) : e.name = name).data

\* The last element of the list that carries the file name.
LastNamed(list, name) ==
    LET at == {i \in 1 .. Len(list) : list[i].fileName = name}
    IN  list[CHOOSE i \in at : \A j \in at : j <= i]

SlicePath(slice) == Stickers \o <<"/">> \o slice.fileName

\* The text cut at its line feeds.
RECURSIVE SplitLines(_, _)
SplitLines(text, line) ==
    IF text = <<>> THEN <<line>>
    ELSE IF Head(text) = LF
    THEN <<line>> \o SplitLines(Tail(text), <<>>)
    ELSE SplitLines(Tail(text), Append(line, Head(text)))

\* C14: downloadBatch saves one archive, named meme_pack.zip, whose file
\* entries are exactly stickers/<fileName> for every slice passed in,
\* <fileName> at the root for every extra asset, and info.txt at the root if
\* and only if metadata was passed, each entry holding the blob it was given;
\* info.txt reads: the Title line, a blank line, the Description: line, the
\* description text, a blank line, the attribution line.
C14_ArchiveContents ==
    /\ zipPc # "done" => saved = <<>>
    /\ zipPc = "done" =>
          /\ Len(saved) = 1
          /\ saved[1].name = MemePackZip
          /\ LET z == saved[1].content
                 slices == zipArgs.slices
                 assets == zipArgs.extraAssets
                 meta == zipArgs.metaData
             IN  /\ FileNames(z) =
                        {SlicePath(slices[i]) : i \in 1 .. Len(slices)}
                            \cup {assets[i].fileName : i \in 1 .. Len(assets)}
                            \cup (IF meta # Null THEN {InfoTxt} ELSE {})
                 /\ Cardinality(FileEntries(z)) = Cardinality(FileNames(z))
                 /\ \A i \in 1 .. Len(slices) :
                       EntryData(z, SlicePath(slices[i])) =
                           [blob |-> LastNamed(slices,
                                               slices[i].fileName).blob]
                 /\ \A i \in 1 .. Len(assets) :
                       EntryData(z, assets[i].fileName) =
                           [blob |-> assets[i].blob]
                 /\ (InfoTxt \in FileNames(z)) <=> (meta # Null)
                 /\ meta # Null =>
                       SplitLines(EntryData(z, InfoTxt).text, <<>>) =
                           <<TitleLabel \o meta.title, <<>>,
                             DescriptionLabel>>
                               \o SplitLines(meta.description, <<>>)
                               \o << <<>>, Attribution>>

\* A complete pack has been saved: 24 stickers, the banner, the logo and
\* info.txt with a one-line description.
C14_Witness ==
    /\ zipPc = "done"
    /\ status = "COMPLETE"
    /\ Len(saved) = 1
    /\ Cardinality(FileNames(saved[1].content)) = 27
    /\ Len(SplitLines(EntryData(saved[1].content, InfoTxt).text, <<>>)) = 6

----------------------------------------------------------------------------
(* Properties of handleGenerate, under Spec (continued) *)

Called(c) == calls[c] = 0 /\ calls'[c] = 1
TransformCalls == <<calls["sliceMemeGrid"], calls["processBanner"],
                    calls["processLogo"]>>

----------------------------------------------------------------------------
(* Properties of the generation calls, checked under GenSpec *)

Answered == svcResponse # Null
ImageAnswered == Answered /\ genCall.kind \in ImageKinds
MetadataAnswered == Answered /\ genCall.kind = "metadata"

\* The first candidate of the response, if there is one, has a part that
\* carries inline image data.
FirstCandidateHasImage(response) ==
    /\ response.hasCandidates
    /\ Len(response.candidates) > 0
    /\ response.candidates[1].hasContent
    /\ response.candidates[1].hasParts
    /\ \E i \in 1 .. Len(response.candidates[1].parts) :
          /\ response.candidates[1].parts[i].hasInlineData
          /\ response.candidates[1].parts[i].data # ""

\* The data of the first part, in order, that carries image data.
FirstImageOf(parts) ==
    parts[CHOOSE i \in 1 .. Len(parts) :
              /\ parts[i].hasInlineData /\ parts[i].data # ""
              /\ \A j \in 1 .. (i - 1) :
                    ~(parts[j].hasInlineData /\ parts[j].data # "")].data

\* C16: an image generation call whose response has no candidate, or whose
\* first candidate has no part carrying inline image data, fails with the
\* "no image data" error, an error with which a request of a batch rejects;
\* otherwise it returns the data of the first part that carries some.
C16_NoImageDataError ==
    ImageAnswered =>
        IF FirstCandidateHasImage(svcResponse)
        THEN /\ genResult.state = "fulfilled"
             /\ genResult.value =
                    FirstImageOf(svcResponse.candidates[1].parts)
        ELSE /\ genResult.state = "rejected"
             /\ genResult.reason = NoImageData
             /\ genResult.reason \in RequestErrors(genCall.kind)

\* What extractImage does: as C16 states, except that a first candidate
\* without content, or with a content without parts, makes the call fail
\* with a TypeError in place of the "no image data" error.
ExtractImageOutcomes ==
    /\ (genResult.state = "rejected" /\ ~Answered)
          => genResult.reason = ServiceError
    /\ (genResult.state = "pending") => ~Answered
    /\ ImageAnswered =>
          IF FirstCandidateHasImage(svcResponse)
          THEN /\ genResult.state = "fulfilled"
               /\ genResult.value =
                      FirstImageOf(svcResponse.candidates[1].parts)
          ELSE /\ genResult.state = "rejected"
               /\ genResult.reason =
                      IF ~svcResponse.hasCandidates
                            \/ svcResponse.candidates = <<>>
                      THEN NoImageData
                      ELSE IF ~svcResponse.candidates[1].hasContent
                      THEN TypeErrorReadingParts
                      ELSE IF ~svcResponse.candidates[1].hasParts
                      THEN TypeErrorNotIterable
                      ELSE NoImageData

\* A text that is certainly not JSON: it holds a token JSON does not have,
\* its braces do not pair up, or a comma follows the opening brace.
Count(toks, tok) == Cardinality({i \in 1 .. Len(toks) : toks[i] = tok})
Unparseable(toks) ==
    \/ \E i \in 1 .. Len(toks) : toks[i].t = "junk"
    \/ Count(toks, LBrace) # Count(toks, RBrace)
    \/ \E i \in 1 .. (Len(toks) - 1) :
          toks[i] = LBrace /\ toks[i + 1] = Comma

----------------------------------------------------------------------------
(* Properties of handleGenerate on a blank prompt, and of the batches in   *)
(* flight, checked under Spec                                              *)

\* Empty, or white space only.
Blank(p) == \A i \in 1 .. Len(p) : p[i] = " "

\* C18: on an empty or whitespace-only prompt handleGenerate only sets the
\* error message: the status, the original image, the slices, the banner,
\* the logo and the metadata stay as they are, the API-key check is not
\* started and no generation request is issued.
C18_BlankPromptOnlySetsError ==
    [][(handleGenerate /\ Blank(prompt)) =>
          /\ errorMsg' = "ERR_PROMPT_REQUIRED"
          /\ UNCHANGED <<status, statusMessage, originalImage, slicedImages,
                         banner, logo, metaData>>
          /\ pc = "idle" /\ pc' = "idle"
          /\ UNCHANGED <<requests, calls, stale, batch, params>>]_vars

\* The generate button was clicked on a whitespace-only prompt while the
\* results of a finished batch were on show.
C18_Witness ==
    /\ prompt = <<" ">>
    /\ errorMsg = "ERR_PROMPT_REQUIRED"
    /\ status = "COMPLETE"
    /\ Len(slicedImages) = COLS * ROWS
    /\ banner # Null /\ logo # Null
    /\ pc = "idle"

\* The handler of a batch has started and has not yet returned.
BatchInFlight == pc # "idle"

\* C19: at most one batch is in flight: the generate button is disabled
\* exactly while the status is GENERATING or PROCESSING, which is exactly
\* while a batch is in flight; a batch starts only from IDLE, COMPLETE or
\* ERROR, with no batch in flight; and generation requests are issued only
\* by the batch in flight, each at most once.
C19_OneBatchInFlight ==
    /\ [](generateDisabled <=> status \in {"GENERATING", "PROCESSING"})
    /\ [](BatchInFlight <=> status \in {"GENERATING", "PROCESSING"})
    /\ [](\A k \in Kinds : calls[k] <= 1)
    /\ [][batch' # batch =>
              /\ batch' = batch + 1
              /\ status \in {"IDLE", "COMPLETE", "ERROR"}
              /\ ~BatchInFlight
              /\ status' = "GENERATING"]_vars
    /\ [][(\E k \in Kinds : calls'[k] > calls[k]) =>
              /\ BatchInFlight
              /\ status = "GENERATING"
              /\ batch' = batch
              /\ \A k \in Kinds : calls[k] = 0 /\ requests[k] = "none"]_vars

\* The second batch is being processed, the button disabled.
C19_Witness ==
    /\ batch = 2
    /\ status = "PROCESSING"
    /\ pc = "processBanner"
    /\ generateDisabled
    /\ \A k \in Kinds : calls[k] = 1

\* At COMPLETE everything but the metadata is held.
CompleteHoldsImages ==
    status = "COMPLETE" =>
        /\ originalImage # Null
        /\ Len(slicedImages) = COLS * ROWS
        /\ banner # Null
        /\ logo # Null

\* The status moves from GENERATING to PROCESSING to COMPLETE; ERROR is
\* entered from GENERATING or PROCESSING only; a batch starts at GENERATING;
\* reset leads from COMPLETE to IDLE.
StatusOrder ==
    [][status' # status =>
          \/ status \in {"IDLE", "COMPLETE", "ERROR"} /\ status' = "GENERATING"
          \/ status = "GENERATING" /\ status' \in {"PROCESSING", "ERROR"}
          \/ status = "PROCESSING" /\ status' \in {"COMPLETE", "ERROR"}
          \/ status = "COMPLETE" /\ status' = "IDLE"]_vars

\* C20: in every reachable state, status = COMPLETE implies that the
\* original image, the 24 slices, the banner, the logo and the metadata are
\* all present; and the status values of a batch occur in the order
\* GENERATING, PROCESSING, COMPLETE, with ERROR entered from GENERATING or
\* PROCESSING and never from COMPLETE.
C20_CompleteHoldsAll ==
    /\ [](CompleteHoldsImages /\ (status = "COMPLETE" => metaData # Null))
    /\ StatusOrder

----------------------------------------------------------------------------
(* Properties of the assets held and of reset, checked under Spec *)

\* The batches whose generation calls produced the assets the component
\* holds for display and download.
BatchesHeld ==
    (IF originalImage # Null THEN {originalImage.tag.batch} ELSE {})
        \cup {slicedImages[i].blob.picture.src.batch :
                 i \in 1 .. Len(slicedImages)}
        \cup (IF banner # Null THEN {banner.blob.picture.src.batch} ELSE {})
        \cup (IF logo # Null THEN {logo.blob.picture.src.batch} ELSE {})
        \cup (IF metaData # Null THEN {metaData.batch} ELSE {})

\* C21: in every reachable state the original image, the slices, the
\* banner, the logo and the metadata that are held all come from one and
\* the same batch.
C21_AssetsOfOneBatch == Cardinality(BatchesHeld) <= 1

\* The mixing does not end with the batch: after a failed transform of the
\* second batch the download button offers slices of one batch with the
\* banner of another.
MixedAtError ==
    /\ status = "ERROR"
    /\ slicedImages # <<>>
    /\ banner # Null
    /\ slicedImages[1].blob.picture.src.batch
           # banner.blob.picture.src.batch

\* C22: reset is offered only when the status is COMPLETE; it sets the
\* status to IDLE and clears the original image, the slices, the banner,
\* the logo, the metadata and the error message; it leaves the prompt and
\* the selected reference image as they are, and a batch started afterwards
\* takes both as its parameters.
C22_ResetKeepsForm ==
    /\ []((ENABLED reset) <=> status = "COMPLETE")
    /\ [][(status # "IDLE" /\ status' = "IDLE") =>
              /\ status = "COMPLETE"
              /\ originalImage' = Null
              /\ slicedImages' = <<>>
              /\ banner' = Null
              /\ logo' = Null
              /\ metaData' = Null
              /\ errorMsg' = "null"
              /\ UNCHANGED <<prompt, refImage>>]_vars
    /\ [][batch' # batch =>
              params' = [userPrompt |-> prompt, refImage |-> refImage]]_vars

\* A complete batch has been reset: nothing of it is held, and the prompt
\* and the reference image are still in the form.
C22_Witness ==
    /\ status = "IDLE"
    /\ batch = 1
    /\ calls["processLogo"] = 1
    /\ originalImage = Null /\ slicedImages = <<>>
    /\ banner = Null /\ logo = Null /\ metaData = Null
    /\ errorMsg = "null"
    /\ prompt = <<"c", "a", "t">>
    /\ refImage = "file"
    /\ params = [userPrompt |-> prompt, refImage |-> refImage]

============================================================================
